---- MODULE Spec2Model ----
(***************************************************************************)
(* A model of the owning-key crate: KeyId minting (src/src/lib.rs), the    *)
(* minimal and the bookkeeping keys with their finalizer registry          *)
(* (src/src/key.rs), and the locked variants with their accessors          *)
(* (src/src/locked.rs).                                                    *)
(***************************************************************************)
EXTENDS Integers, Sequences, FiniteSets, TLC

VARIABLES
    counter,   \* KeyId::new's static COUNTER
    mpc,       \* per minting thread: position inside fetch_update
    mprev,     \* per minting thread: the value fetch_update last loaded
    mret,      \* per minting thread: what its last KeyId::new returned
    issued,    \* per identity: how many times it has been returned by a mint
    keys,      \* key slot -> the key living there
    heap,      \* address -> storage cell of a caller-created value
    owned,     \* address -> the unlocked value the caller holds for that storage
    handles,   \* slot -> the locked value (plain or Dropping) the caller holds
    boxes,     \* address -> heap cell of a DropperInner
    td,        \* the running Drop of a bookkeeping key (unlock_drop_all / DropGuard)
    last,      \* the last call and its outcome
    lpc,       \* per thread: position inside DroppingKey::lock
    larg,      \* per thread: the locals of its DroppingKey::lock call
    mutex      \* key slot -> the thread holding the key's Mutex, or 0

vars == <<counter, mpc, mprev, mret, issued, keys, heap, owned, handles, boxes, td, last,
          lpc, larg, mutex>>

mintVars == <<mpc, mprev, mret, issued>>
progVars == <<keys, heap, owned, handles, boxes, td, last>>
lockVars == <<lpc, larg, mutex>>

----------------------------------------------------------------------------
(* Bounds of the model *)

\* width of usize in bits: usize::MAX == 2^UsizeBits - 1
UsizeBits == 2
\* threads that mint concurrently
MaxThreads == 2
\* key slots
MaxKeys == 2
\* storage cells the caller may create values in (registry model)
MaxValues == 2
\* heap cells available for DropperInner boxes
MaxBoxes == 2
\* storage cells the caller may create values in (accessor model)
MaxAccessValues == 1
\* longest buffer, and the spare capacity a buffer may have
MaxLen == 1
MaxSpare == 1
\* strong owners a caller may create a shared value with, and the most it may reach
MaxStrong == 3
\* weak handles per shared value
MaxWeak == 1

UsizeMax == (2 ^ UsizeBits) - 1
Threads == 1..MaxThreads
KeySlots == 1..MaxKeys
Addrs == 1..MaxValues
BoxAddrs == 1..MaxBoxes
Elem == {0, 1}

----------------------------------------------------------------------------
(* lib.rs: KeyId *)

None == [some |-> FALSE, v |-> 0]
Some(x) == [some |-> TRUE, v |-> x]

\* usize::checked_add(id, 1), mutated to wrap
wrapping_add(id) == Some((id + 1) % (UsizeMax + 1))

\* usize::checked_add(id, 1)
checked_add(id) == IF id + 1 > UsizeMax THEN None ELSE Some(id + 1)

\* a compare-exchange that does not compare (a plain store)
compare_always(cur, prev) == TRUE

\* whether compare_exchange_weak(prev, next) may succeed when COUNTER holds cur
compare_exchange(cur, prev) == cur = prev

NoId == UsizeMax + 1
MintIdle == "idle"
MintLoaded == "loaded"

\* KeyId::new, first step of fetch_update: prev = COUNTER.load()
MintLoad(t) ==
    /\ mpc[t] = MintIdle
    /\ mpc' = [mpc EXCEPT ![t] = MintLoaded]
    /\ mprev' = [mprev EXCEPT ![t] = counter]
    /\ UNCHANGED <<counter, mret, issued>>
    /\ UNCHANGED <<progVars, lockVars>>

\* fetch_update's closure returned None: Err(prev), and expect() panics
MintOverflow(t) ==
    /\ mpc[t] = MintLoaded
    /\ ~checked_add(mprev[t]).some
    /\ mpc' = [mpc EXCEPT ![t] = MintIdle]
    /\ mret' = [mret EXCEPT ![t] = [outcome |-> "panic", id |-> NoId]]
    /\ UNCHANGED <<counter, mprev, issued>>
    /\ UNCHANGED <<progVars, lockVars>>

\* compare_exchange_weak succeeded: COUNTER = next, KeyId { id: prev } is returned
MintCasOk(t) ==
    /\ mpc[t] = MintLoaded
    /\ checked_add(mprev[t]).some
    /\ compare_exchange(counter, mprev[t])
    /\ counter' = checked_add(mprev[t]).v
    /\ mpc' = [mpc EXCEPT ![t] = MintIdle]
    /\ mret' = [mret EXCEPT ![t] = [outcome |-> "ok", id |-> mprev[t]]]
    /\ issued' = [issued EXCEPT ![mprev[t]] = IF @ < 2 THEN @ + 1 ELSE @]
    /\ UNCHANGED mprev
    /\ UNCHANGED <<progVars, lockVars>>

\* compare_exchange_weak failed (another thread moved COUNTER, or spuriously):
\* prev = the value it found, and the loop goes round
MintCasFail(t) ==
    /\ mpc[t] = MintLoaded
    /\ checked_add(mprev[t]).some
    /\ mprev' = [mprev EXCEPT ![t] = counter]
    /\ UNCHANGED <<counter, mpc, mret, issued>>
    /\ UNCHANGED <<progVars, lockVars>>

----------------------------------------------------------------------------
(* The caller's unlocked values and their storage *)

NoValue == [variant |-> "None"]

\* &'a mut T
RefMut(a) == [variant |-> "Mut", ptr |-> a]
\* Box<T>
BoxOf(a) == [variant |-> "Box", ptr |-> a]
\* Vec<T>
VecOf(a, n, c) == [variant |-> "Vec", ptr |-> a, len |-> n, cap |-> c]
\* String: a Vec<u8> holding UTF-8
StringOf(v) == [variant |-> "String", vec |-> v]
\* CString: a Box<[u8]> ending in NUL
CStringOf(a, n) == [variant |-> "CString", inner |-> [ptr |-> a, len |-> n]]
\* Rc<T>, Arc<T>
RcOf(a) == [variant |-> "Rc", ptr |-> a]
ArcOf(a) == [variant |-> "Arc", ptr |-> a]

\* the storage an unlocked value points to
UPtr(u) ==
    CASE u.variant = "String" -> u.vec.ptr
      [] u.variant = "CString" -> u.inner.ptr
      [] OTHER -> u.ptr

\* a storage cell: st, data and the counts are the storage; released counts the
\* unlocked owners of it the library has dropped. The rest is its history: the
\* identity it was last locked under, whether an unlock call of a key has ever
\* reverted it, the unlocked value and the data it had when it was last locked,
\* whether a caller's write has changed the data since, the strong count it
\* had when it was last locked, and the clone calls that have returned since
NoLockId == UsizeMax + 1
FreeCell ==
    [st |-> "free", data |-> <<>>, strong |-> 0, weak |-> 0, released |-> 0,
     lock_id |-> NoLockId, reverted |-> FALSE,
     orig |-> NoValue, orig_data |-> <<>>, wrote |-> FALSE,
     orig_strong |-> 0, clones |-> 0]
LiveCell(d, s) ==
    [st |-> "live", data |-> d, strong |-> s, weak |-> 0, released |-> 0,
     lock_id |-> NoLockId, reverted |-> FALSE,
     orig |-> NoValue, orig_data |-> <<>>, wrote |-> FALSE,
     orig_strong |-> 0, clones |-> 0]
\* the cell's history when the unlocked value u is locked under identity id;
\* released counts the releases since then
LockedCell(c, u, id) ==
    [c EXCEPT !.lock_id = id, !.orig = u, !.orig_data = c.data, !.wrote = FALSE,
              !.released = 0, !.orig_strong = c.strong, !.clones = 0]

SeqsUpTo(n) == UNION {[1..m -> Elem] : m \in 0..n}
\* the bytes of a C string of n bytes: no interior NUL, then the NUL
CBytes(n) == [i \in 1..(n + 1) |-> IF i = n + 1 THEN 0 ELSE 1]

\* the values a caller may construct at address a: <<unlocked value, data, strong count>>
ScalarValues(a) ==
    {<<u, <<e>>, 1>> : u \in {RefMut(a), BoxOf(a)}, e \in Elem}
SharedValues(a) ==
    {<<u, <<e>>, s>> : u \in {RcOf(a), ArcOf(a)}, e \in Elem, s \in 1..MaxStrong}
BufferValues(a) ==
    UNION {{<<VecOf(a, Len(d), Len(d) + sp), d, 1>>,
            <<StringOf(VecOf(a, Len(d), Len(d) + sp)), d, 1>>} :
           d \in SeqsUpTo(MaxLen), sp \in 0..MaxSpare}
CStringValues(a) ==
    {<<CStringOf(a, n + 1), CBytes(n), 1>> : n \in 0..MaxLen}
AllValues(a) == ScalarValues(a) \cup SharedValues(a) \cup BufferValues(a) \cup CStringValues(a)

\* what the concurrent model locks: an owner and a shared handle, in a caller's
\* Send + Sync wrapper (see DroppingKeyLock)
ConcValues(a) == {<<BoxOf(a), <<0>>, 1>>, <<ArcOf(a), <<0>>, 1>>}

\* what the registry model locks: a reference (nothing to free), an owner, a
\* buffer (a LockedVec inside), a shared handle
PlainValues(a) ==
    {<<RefMut(a), <<0>>, 1>>, <<BoxOf(a), <<0>>, 1>>,
     <<StringOf(VecOf(a, 0, 0)), <<>>, 1>>, <<RcOf(a), <<0>>, 1>>}

----------------------------------------------------------------------------
(* locked.rs: the locked variants *)

\* check_id: TRUE when it returns, FALSE when it panics
check_none(key_id, value_id) == TRUE
check_id(key_id, value_id) == key_id = value_id

Ok(x) == [ok |-> TRUE, v |-> x]
WrongKey == [ok |-> FALSE, v |-> NoValue]

\* String::into_bytes and String::from_utf8_unchecked
String_into_bytes(s) == s.vec
String_from_utf8_unchecked(vec) == StringOf(vec)
\* CString::into_bytes_with_nul: the boxed slice as a Vec, capacity == length
CString_into_bytes_with_nul(s) == VecOf(s.inner.ptr, s.inner.len, s.inner.len)
\* CString::from_vec_with_nul_unchecked: the Vec as a boxed slice
CString_from_vec_with_nul_unchecked(vec) == CStringOf(vec.ptr, vec.len)

LockedMut_raw_lock(r, key_id) == [variant |-> "Mut", ptr |-> r.ptr, key_id |-> key_id]
\* a raw_lock that does not store the identity it is given
LockedBox_raw_lock_zero_id(b, key_id) == [variant |-> "Box", ptr |-> b.ptr, key_id |-> 0]
LockedBox_raw_lock(b, key_id) == [variant |-> "Box", ptr |-> b.ptr, key_id |-> key_id]
\* a raw_lock that records the length where the capacity belongs
LockedVec_raw_lock_no_capacity(vec, key_id) ==
    [variant |-> "Vec", ptr |-> vec.ptr, len |-> vec.len, capacity |-> vec.len,
     key_id |-> key_id]
\* LockedVec::raw_lock: (len, capacity) = (vec.len(), vec.capacity()), and the pointer
LockedVec_raw_lock(vec, key_id) ==
    [variant |-> "Vec", ptr |-> vec.ptr, len |-> vec.len, capacity |-> vec.cap,
     key_id |-> key_id]
LockedString_raw_lock(s, key_id) ==
    [variant |-> "String", inner |-> LockedVec_raw_lock(String_into_bytes(s), key_id)]
LockedCString_raw_lock(s, key_id) ==
    [variant |-> "CString",
     inner |-> LockedVec_raw_lock(CString_into_bytes_with_nul(s), key_id)]
LockedRc_raw_lock(rc, key_id) == [variant |-> "Rc", ptr |-> rc.ptr, key_id |-> key_id]
LockedArc_raw_lock(arc, key_id) == [variant |-> "Arc", ptr |-> arc.ptr, key_id |-> key_id]

\* Locked::raw_lock, by the type of the unlocked value
raw_lock(u, key_id) ==
    CASE u.variant = "Mut" -> LockedMut_raw_lock(u, key_id)
      [] u.variant = "Box" -> LockedBox_raw_lock(u, key_id)
      [] u.variant = "Vec" -> LockedVec_raw_lock(u, key_id)
      [] u.variant = "String" -> LockedString_raw_lock(u, key_id)
      [] u.variant = "CString" -> LockedCString_raw_lock(u, key_id)
      [] u.variant = "Rc" -> LockedRc_raw_lock(u, key_id)
      [] u.variant = "Arc" -> LockedArc_raw_lock(u, key_id)

\* Locked::key_id
key_id_of(l) ==
    CASE l.variant \in {"String", "CString"} -> l.inner.key_id
      [] OTHER -> l.key_id

\* the storage a locked value points to
LPtr(l) ==
    CASE l.variant \in {"String", "CString"} -> l.inner.ptr
      [] OTHER -> l.ptr

LockedMut_raw_unlock(l, key_id) ==
    IF check_id(key_id, l.key_id) THEN Ok(RefMut(l.ptr)) ELSE WrongKey
LockedBox_raw_unlock(l, key_id) ==
    IF check_id(key_id, l.key_id) THEN Ok(BoxOf(l.ptr)) ELSE WrongKey
\* a raw_unlock that rebuilds the buffer with capacity == length
LockedVec_raw_unlock_shrunk(l, key_id) ==
    IF check_id(key_id, l.key_id) THEN Ok(VecOf(l.ptr, l.len, l.len)) ELSE WrongKey
LockedVec_raw_unlock(l, key_id) ==
    IF check_id(key_id, l.key_id) THEN Ok(VecOf(l.ptr, l.len, l.capacity)) ELSE WrongKey
LockedString_raw_unlock(l, key_id) ==
    LET vec == LockedVec_raw_unlock(l.inner, key_id)
    IN  IF vec.ok THEN Ok(String_from_utf8_unchecked(vec.v)) ELSE WrongKey
LockedCString_raw_unlock(l, key_id) ==
    LET vec == LockedVec_raw_unlock(l.inner, key_id)
    IN  IF vec.ok THEN Ok(CString_from_vec_with_nul_unchecked(vec.v)) ELSE WrongKey
LockedRc_raw_unlock(l, key_id) ==
    IF check_id(key_id, l.key_id) THEN Ok(RcOf(l.ptr)) ELSE WrongKey
LockedArc_raw_unlock(l, key_id) ==
    IF check_id(key_id, l.key_id) THEN Ok(ArcOf(l.ptr)) ELSE WrongKey

\* Locked::raw_unlock, by the type of the locked value
raw_unlock(l, key_id) ==
    CASE l.variant = "Mut" -> LockedMut_raw_unlock(l, key_id)
      [] l.variant = "Box" -> LockedBox_raw_unlock(l, key_id)
      [] l.variant = "Vec" -> LockedVec_raw_unlock(l, key_id)
      [] l.variant = "String" -> LockedString_raw_unlock(l, key_id)
      [] l.variant = "CString" -> LockedCString_raw_unlock(l, key_id)
      [] l.variant = "Rc" -> LockedRc_raw_unlock(l, key_id)
      [] l.variant = "Arc" -> LockedArc_raw_unlock(l, key_id)

\* Locked::raw_clone: Self { ..*self }, an aliasing copy
raw_clone(l) == l

----------------------------------------------------------------------------
(* key.rs: the keys *)

NoKey == [kind |-> "none"]
\* a key that is gone: what it was, its identity, whether unlock was ever called
\* on it with a value of its identity, and how its drop ended
DeadKey(key, outcome) ==
    [kind |-> "dropped", was |-> key.kind,
     id |-> IF key.kind = "ForgettingKey" THEN key.id ELSE key.inner.id,
     unlocked |-> IF key.kind = "ForgettingKey" THEN FALSE ELSE key.unlocked,
     outcome |-> outcome]
\* a ForgettingKey that does not keep the identity minted for it
ForgettingKey_same_id(id) == [kind |-> "ForgettingKey", id |-> 0]
\* ForgettingKey { id }
ForgettingKey(id) == [kind |-> "ForgettingKey", id |-> id]
\* LocalDroppingKey { inner, droppers: RefCell<HashSet<Dropper>> }; unlocked is
\* history: an unlock call on this key has got past the identity check
LocalDroppingKey(id) ==
    [kind |-> "LocalDroppingKey", inner |-> ForgettingKey(id), droppers |-> {},
     unlocked |-> FALSE]
\* DroppingKey { inner, droppers: Mutex<HashSet<Dropper>> }
DroppingKey(id) ==
    [kind |-> "DroppingKey", inner |-> ForgettingKey(id), droppers |-> {},
     unlocked |-> FALSE]

BookkeepingKinds == {"LocalDroppingKey", "DroppingKey"}
IsBookkeeping(key) == key.kind \in BookkeepingKinds
IsLive(key) == key.kind \in BookkeepingKinds \cup {"ForgettingKey"}

\* Key::id
Key_id(key) == IF key.kind = "ForgettingKey" THEN key.id ELSE key.inner.id

\* the locked values the caller holds: a plain locked value, or Dropping { value, ptr }
NoHandle == [variant |-> "None"]
Dropping(value, ptr) == [value |-> value, ptr |-> ptr]
IsDropping(h) == "value" \in DOMAIN h
IsHeld(h) == h # NoHandle
\* Deref for Dropping
Deref(h) == IF IsDropping(h) THEN h.value ELSE h

NoLocked == [variant |-> "None"]
FreeBox == [st |-> "free", value |-> NoLocked]

\* the Drop of a bookkeeping key: the key, what its iterator has left, how many
\* finalizers have panicked (the thread's panic count) and, as history, the
\* storage this pass has released so far, in order
Idle == [st |-> "idle", key |-> 0, droppers |-> {}, panics |-> 0, rel |-> <<>>]
NoCall == [op |-> "none", key |-> 0, h |-> 0, outcome |-> "ok", ret |-> NoValue]
Call(op, k, h, outcome, ret) ==
    [op |-> op, key |-> k, h |-> h, outcome |-> outcome, ret |-> ret]

\* the caller is running (no Drop of a key is in progress, the process did not abort)
Running == td.st = "idle"

\* a thread that is not inside DroppingKey::lock has no locals
NoArg == [k |-> 0, a |-> 0, value |-> NoLocked, ptr |-> 0, seen |-> {}, dup |-> FALSE]

\* ForgettingKey::lock
ForgettingKey_lock(key, u) == raw_lock(u, Key_id(key))
\* a ForgettingKey::unlock that reverts with whatever identity the value carries
ForgettingKey_unlock_any(key, l) == raw_unlock(l, key_id_of(l))
\* ForgettingKey::unlock
ForgettingKey_unlock(key, l) == raw_unlock(l, Key_id(key))

\* the key slots are filled in order, each once
FreshSlot(k) ==
    /\ keys[k] = NoKey
    /\ \A j \in KeySlots : j < k => keys[j] # NoKey

\* KeyId::new as one atomic fetch_update, then the key's constructor
NewKey(k, kind) ==
    /\ Running
    /\ FreshSlot(k)
    /\ LET next == checked_add(counter)
       IN  IF next.some
           THEN /\ counter' = next.v
                /\ keys' = [keys EXCEPT ![k] =
                               CASE kind = "ForgettingKey" -> ForgettingKey(counter)
                                 [] kind = "LocalDroppingKey" -> LocalDroppingKey(counter)
                                 [] kind = "DroppingKey" -> DroppingKey(counter)]
                /\ last' = Call("new", k, 0, "ok", NoValue)
           ELSE /\ UNCHANGED <<counter, keys>>
                /\ last' = Call("new", k, 0, "panic_overflow", NoValue)
    /\ UNCHANGED <<heap, owned, handles, boxes, td>>
    /\ UNCHANGED <<mintVars, lockVars>>

ForgettingKey_new(k) == NewKey(k, "ForgettingKey")
LocalDroppingKey_new(k) == NewKey(k, "LocalDroppingKey")
DroppingKey_new(k) == NewKey(k, "DroppingKey")

\* the caller constructs an unlocked value in the next unused storage cell
NewValue(a, val) ==
    /\ Running
    /\ heap[a].st = "free"
    /\ \A j \in DOMAIN heap : j < a => heap[j].st # "free"
    /\ heap' = [heap EXCEPT ![a] = LiveCell(val[2], val[3])]
    /\ owned' = [owned EXCEPT ![a] = val[1]]
    /\ last' = Call("value", 0, a, "ok", NoValue)
    /\ UNCHANGED <<counter, keys, handles, boxes, td>>
    /\ UNCHANGED <<mintVars, lockVars>>

\* ForgettingKey::lock(value) on key slot k
ForgettingKeyLock(k, a) ==
    /\ Running
    /\ keys[k].kind = "ForgettingKey"
    /\ owned[a] # NoValue
    /\ handles[a] = NoHandle
    /\ handles' = [handles EXCEPT ![a] = ForgettingKey_lock(keys[k], owned[a])]
    /\ owned' = [owned EXCEPT ![a] = NoValue]
    /\ heap' = [heap EXCEPT ![a] = LockedCell(@, owned[a], Key_id(keys[k]))]
    /\ last' = Call("lock", k, a, "ok", NoValue)
    /\ UNCHANGED <<counter, keys, boxes, td>>
    /\ UNCHANGED <<mintVars, lockVars>>

\* ForgettingKey::unlock(value) on key slot k: the value is moved in; on the
\* identity panic it is dropped (no destructor), still locked
ForgettingKeyUnlock(k, h) ==
    /\ Running
    /\ keys[k].kind = "ForgettingKey"
    /\ IsHeld(handles[h])
    /\ ~IsDropping(handles[h])
    /\ LET r == ForgettingKey_unlock(keys[k], handles[h])
       IN  /\ handles' = [handles EXCEPT ![h] = NoHandle]
           /\ IF r.ok
              THEN /\ owned' = [owned EXCEPT ![UPtr(r.v)] = r.v]
                   /\ heap' = [heap EXCEPT ![UPtr(r.v)].reverted = TRUE]
                   /\ last' = Call("unlock", k, h, "ok", r.v)
              ELSE /\ UNCHANGED <<owned, heap>>
                   /\ last' = Call("unlock", k, h, "panic_wrong_key", NoValue)
    /\ UNCHANGED <<counter, keys, boxes, td>>
    /\ UNCHANGED <<mintVars, lockVars>>

----------------------------------------------------------------------------
(* key.rs: Dropper, Dropping and the bookkeeping keys *)

Bump(n) == IF n < 2 THEN n + 1 ELSE n

\* a drop of an unlocked value that forgets shared handles (mem::forget of the Rc)
DropUnlocked_forget_shared(hp, u) ==
    IF u.variant \in {"Rc", "Arc"}
    THEN [hp EXCEPT ![UPtr(u)].released = Bump(@)]
    ELSE [hp EXCEPT ![UPtr(u)].released = Bump(@), ![UPtr(u)].st = "freed"]
\* drop of an unlocked value: a reference frees nothing, a shared handle gives up
\* one strong count and frees the value with the last one, an owner frees its storage
DropUnlocked(hp, u) ==
    LET a == UPtr(u)
        c == hp[a]
    IN  CASE u.variant = "Mut" ->
               [hp EXCEPT ![a] = [c EXCEPT !.released = Bump(@)]]
          [] u.variant \in {"Rc", "Arc"} ->
               [hp EXCEPT ![a] = [c EXCEPT !.released = Bump(@),
                                           !.strong = IF @ > 0 THEN @ - 1 ELSE 0,
                                           !.st = IF c.strong <= 1 THEN "freed" ELSE @]]
          [] OTHER ->
               [hp EXCEPT ![a] = [c EXCEPT !.released = Bump(@), !.st = "freed"]]

\* whether the destructor of the unlocked value can run caller code that panics:
\* a T with a Drop impl, reached when the owner (the last owner, if shared) goes
MayPanicOnDrop(hp, u) ==
    CASE u.variant \in {"Box", "Vec"} -> TRUE
      [] u.variant \in {"Rc", "Arc"} -> hp[UPtr(u)].strong <= 1
      [] OTHER -> FALSE

\* a Dropper::new whose ptr is not the address of the Box it allocated
Dropper_new_fixed_ptr(value, b) == [ptr |-> 1, cell |-> [st |-> "alloc", value |-> value]]
\* Dropper::new(value): the value goes into a fresh heap cell; the Dropper is its address
Dropper_new(value, b) == [ptr |-> b, cell |-> [st |-> "alloc", value |-> value]]

\* unlock of a bookkeeping key that forgets to remove the record
remove_nothing(droppers, ptr) == droppers
\* HashSet::remove(&ptr): the set without the Dropper whose ptr is equal
remove(droppers, ptr) == droppers \ {ptr}

\* lock of a bookkeeping key that forgets to insert the record
insert_nothing(droppers, ptr) == droppers
\* HashSet::insert(dropper)
insert(droppers, ptr) == droppers \cup {ptr}

\* LocalDroppingKey::lock and DroppingKey::lock (its mutex is free: one thread)
BookkeepingLock(k, a, b) ==
    /\ Running
    /\ owned[a] # NoValue
    /\ handles[a] = NoHandle
    /\ boxes[b].st # "alloc"
    /\ LET value == ForgettingKey_lock(keys[k].inner, owned[a])
           dropper == Dropper_new(raw_clone(value), b)
       IN  /\ boxes' = [boxes EXCEPT ![b] = dropper.cell]
           /\ owned' = [owned EXCEPT ![a] = NoValue]
           /\ heap' = [heap EXCEPT ![a] = LockedCell(@, owned[a], Key_id(keys[k]))]
           /\ IF dropper.ptr \in keys[k].droppers
              THEN /\ UNCHANGED <<keys, handles>>
                   /\ last' = Call("lock", k, a, "panic_unreachable", NoValue)
              ELSE /\ keys' = [keys EXCEPT ![k].droppers = insert(@, dropper.ptr)]
                   /\ handles' = [handles EXCEPT ![a] = Dropping(value, dropper.ptr)]
                   /\ last' = Call("lock", k, a, "ok", NoValue)
    /\ UNCHANGED <<counter, td>>
    /\ UNCHANGED <<mintVars, lockVars>>

LocalDroppingKeyLock(k, a, b) ==
    /\ keys[k].kind = "LocalDroppingKey"
    /\ BookkeepingLock(k, a, b)

\* DroppingKey::lock takes T: Locked + Send + Sync. The locked types of locked.rs
\* hold a NonNull and are neither, so what is locked here is a caller's Locked
\* type that is both and forwards raw_lock, raw_unlock and raw_clone to the
\* variant it wraps (the nesting the Locked trait's safety rules provide for)
DroppingKeyLock(k, a, b) ==
    /\ keys[k].kind = "DroppingKey"
    /\ BookkeepingLock(k, a, b)

\* LocalDroppingKey::unlock and DroppingKey::unlock. The handle is moved in. On the
\* identity panic nothing else happened; when the record is missing the unlocked
\* value is dropped by the unwinding; the removed Dropper has no destructor, so
\* its heap cell stays allocated
BookkeepingUnlock(k, h) ==
    /\ Running
    /\ IsHeld(handles[h])
    /\ IsDropping(handles[h])
    /\ LET ptr == handles[h].ptr
           r == ForgettingKey_unlock(keys[k].inner, handles[h].value)
       IN  /\ handles' = [handles EXCEPT ![h] = NoHandle]
           /\ IF ~r.ok
              THEN /\ UNCHANGED <<keys, heap, owned>>
                   /\ last' = Call("unlock", k, h, "panic_wrong_key", NoValue)
              ELSE IF ptr \notin keys[k].droppers
              THEN /\ heap' = DropUnlocked([heap EXCEPT ![UPtr(r.v)].reverted = TRUE], r.v)
                   /\ keys' = [keys EXCEPT ![k].unlocked = TRUE]
                   /\ UNCHANGED owned
                   /\ last' = Call("unlock", k, h, "panic_unreachable", NoValue)
              ELSE /\ keys' = [keys EXCEPT ![k].droppers = remove(@, ptr),
                                            ![k].unlocked = TRUE]
                   /\ owned' = [owned EXCEPT ![UPtr(r.v)] = r.v]
                   /\ heap' = [heap EXCEPT ![UPtr(r.v)].reverted = TRUE]
                   /\ last' = Call("unlock", k, h, "ok", r.v)
    /\ UNCHANGED <<counter, boxes, td>>
    /\ UNCHANGED <<mintVars, lockVars>>

LocalDroppingKeyUnlock(k, h) ==
    /\ keys[k].kind = "LocalDroppingKey"
    /\ BookkeepingUnlock(k, h)

DroppingKeyUnlock(k, h) ==
    /\ keys[k].kind = "DroppingKey"
    /\ BookkeepingUnlock(k, h)

\* DerefMut for Dropping: the caller gets &mut T to the inner locked value and
\* exchanges it (core::mem::swap) with another locked value of the same type
DerefMutSwap(h1, h2) ==
    /\ Running
    /\ h1 # h2
    /\ IsHeld(handles[h1]) /\ IsDropping(handles[h1])
    /\ IsHeld(handles[h2])
    /\ Deref(handles[h1]).variant = Deref(handles[h2]).variant
    /\ Deref(handles[h1]) # Deref(handles[h2])
    /\ handles' = [handles EXCEPT
                     ![h1] = Dropping(Deref(handles[h2]), handles[h1].ptr),
                     ![h2] = IF IsDropping(handles[h2])
                             THEN Dropping(Deref(handles[h1]), handles[h2].ptr)
                             ELSE Deref(handles[h1])]
    /\ last' = Call("swap", 0, h1, "ok", NoValue)
    /\ UNCHANGED <<counter, keys, heap, owned, boxes, td>>
    /\ UNCHANGED <<mintVars, lockVars>>

\* a ForgettingKey with a destructor that releases what is still locked under it
forget_releasing(hp, id) ==
    [a \in DOMAIN hp |->
        IF hp[a].lock_id = id /\ hp[a].st = "live" /\ ~hp[a].reverted
        THEN [hp[a] EXCEPT !.released = Bump(@), !.st = "freed"]
        ELSE hp[a]]
\* what the end of a ForgettingKey { id } does to the storage: the struct has no
\* Drop impl and its one field is Copy, so nothing
forget(hp, id) == hp

\* a ForgettingKey goes out of scope
ForgettingKeyDrop(k) ==
    /\ Running
    /\ keys[k].kind = "ForgettingKey"
    /\ keys' = [keys EXCEPT ![k] = DeadKey(keys[k], "ok")]
    /\ heap' = forget(heap, Key_id(keys[k]))
    /\ last' = Call("drop", k, 0, "ok", NoValue)
    /\ UNCHANGED <<counter, owned, handles, boxes, td>>
    /\ UNCHANGED <<mintVars, lockVars>>

\* Drop for LocalDroppingKey / DroppingKey: mem::take(droppers).into_iter(), and
\* unlock_drop_all starts with its DropGuard. The key is owned (drop takes
\* &mut self), so no thread is inside a call on it
BookkeepingDrop(k) ==
    /\ Running
    /\ IsBookkeeping(keys[k])
    /\ \A t \in Threads : larg[t].k # k
    /\ td' = [st |-> "running", key |-> k, droppers |-> keys[k].droppers,
              panics |-> 0, rel |-> <<>>]
    /\ keys' = [keys EXCEPT ![k].droppers = {}]
    /\ last' = Call("drop", k, 0, "running", NoValue)
    /\ UNCHANGED <<counter, heap, owned, handles, boxes>>
    /\ UNCHANGED <<mintVars, lockVars>>

\* an unlock_drop_all without its DropGuard: the first panic leaves the loop, and
\* the iterator is dropped with the records it still holds
guard_none(t, b, failed) ==
    IF failed
    THEN [t EXCEPT !.droppers = {}, !.panics = @ + 1]
    ELSE [t EXCEPT !.droppers = @ \ {b}]
\* what one finalizer does to the pass: the record is consumed; its first panic
\* starts the unwinding and DropGuard::drop goes on with the remaining records;
\* a second one, inside that destructor, aborts the process
guard_step(t, b, failed) ==
    [t EXCEPT !.droppers = @ \ {b},
              !.panics = IF failed THEN @ + 1 ELSE @,
              !.st = IF failed /\ t.panics >= 1 THEN "aborted" ELSE @]

\* one round of a loop of unlock_drop_all: the iterator yields a Dropper (in the
\* HashSet's order, any) and Dropper::unlock_drop runs: Box::from_raw,
\* ManuallyDrop::take, drop(key.unlock(value)), and the Box is freed
UnlockDropStep(b, panics) ==
    /\ td.st = "running"
    /\ b \in td.droppers
    /\ LET key == keys[td.key].inner
           r == ForgettingKey_unlock(key, boxes[b].value)
           failed == ~r.ok \/ panics
       IN  /\ panics => (r.ok /\ MayPanicOnDrop(heap, r.v))
           /\ boxes' = [boxes EXCEPT ![b] = [st |-> "freed", value |-> NoLocked]]
           /\ heap' = IF r.ok THEN DropUnlocked(heap, r.v) ELSE heap
           /\ td' = [guard_step(td, b, failed) EXCEPT
                       !.rel = IF r.ok THEN Append(@, UPtr(r.v)) ELSE @]
           /\ last' = Call("drop", td.key, 0,
                           IF td'.st = "aborted" THEN "abort" ELSE "running", NoValue)
    /\ UNCHANGED <<counter, keys, owned, handles>>
    /\ UNCHANGED <<mintVars, lockVars>>

\* the iterator is exhausted: mem::forget(guard) and return, or the guard's
\* destructor returns and the panic leaves the key's drop
UnlockDropAllEnd ==
    /\ td.st = "running"
    /\ td.droppers = {}
    /\ keys' = [keys EXCEPT ![td.key] =
                   DeadKey(keys[td.key], IF td.panics > 0 THEN "panic_drop" ELSE "ok")]
    /\ last' = Call("drop", td.key, 0,
                    IF td.panics > 0 THEN "panic_drop" ELSE "ok", NoValue)
    /\ td' = Idle
    /\ UNCHANGED <<counter, heap, owned, handles, boxes>>
    /\ UNCHANGED <<mintVars, lockVars>>

----------------------------------------------------------------------------
(* key.rs: DroppingKey::lock(&self) called by several threads *)

\* a Mutex that lets every thread in
mutex_free_always(holder) == TRUE
\* Mutex::lock goes on when no thread holds the mutex
mutex_free(holder) == holder = 0

\* a MutexGuard whose drop leaves the mutex locked
guard_drop_nothing(holder, t) == holder
\* drop of the MutexGuard: the mutex is free again
guard_drop(holder, t) == 0

\* thread t enters key.lock(value): self.inner.lock(value), Dropper::new of its
\* raw_clone (a fresh Box), let ptr = dropper.ptr; all of it on the thread's own data
LockEnter(t, k, a, b) ==
    /\ Running
    /\ lpc[t] = "idle"
    /\ keys[k].kind = "DroppingKey"
    /\ owned[a] # NoValue
    /\ handles[a] = NoHandle
    /\ boxes[b].st # "alloc"
    /\ LET value == ForgettingKey_lock(keys[k].inner, owned[a])
           dropper == Dropper_new(raw_clone(value), b)
       IN  /\ boxes' = [boxes EXCEPT ![b] = dropper.cell]
           /\ owned' = [owned EXCEPT ![a] = NoValue]
           /\ heap' = [heap EXCEPT ![a] = LockedCell(@, owned[a], Key_id(keys[k]))]
           /\ larg' = [larg EXCEPT ![t] = [NoArg EXCEPT !.k = k, !.a = a,
                                               !.value = value, !.ptr = dropper.ptr]]
    /\ lpc' = [lpc EXCEPT ![t] = "lock"]
    /\ UNCHANGED <<counter, keys, handles, td, last, mutex>>
    /\ UNCHANGED mintVars

\* self.droppers.lock().unwrap(): the thread waits until the mutex is free and
\* takes it (the mutex is never poisoned: no thread panics holding the guard)
MutexLock(t) ==
    /\ td.st # "aborted"
    /\ lpc[t] = "lock"
    /\ mutex_free(mutex[larg[t].k])
    /\ mutex' = [mutex EXCEPT ![larg[t].k] = t]
    /\ lpc' = [lpc EXCEPT ![t] = "probe"]
    /\ UNCHANGED <<counter, larg>>
    /\ UNCHANGED <<mintVars, progVars>>

\* HashSet::insert, first half: the table is read and probed for an equal Dropper
HashSetProbe(t) ==
    /\ td.st # "aborted"
    /\ lpc[t] = "probe"
    /\ larg' = [larg EXCEPT ![t].seen = keys[larg[t].k].droppers,
                            ![t].dup = larg[t].ptr \in keys[larg[t].k].droppers]
    /\ lpc' = [lpc EXCEPT ![t] = "write"]
    /\ UNCHANGED <<counter, mutex>>
    /\ UNCHANGED <<mintVars, progVars>>

\* HashSet::insert, second half: the table with the new Dropper is written
HashSetWrite(t) ==
    /\ td.st # "aborted"
    /\ lpc[t] = "write"
    /\ keys' = [keys EXCEPT ![larg[t].k].droppers = insert(larg[t].seen, larg[t].ptr)]
    /\ lpc' = [lpc EXCEPT ![t] = "unlock"]
    /\ UNCHANGED <<counter, heap, owned, handles, boxes, td, last, larg, mutex>>
    /\ UNCHANGED mintVars

\* the MutexGuard is a temporary of the if's condition: it is dropped when the
\* condition has been evaluated, before either branch
MutexGuardDrop(t) ==
    /\ td.st # "aborted"
    /\ lpc[t] = "unlock"
    /\ mutex' = [mutex EXCEPT ![larg[t].k] = guard_drop(@, t)]
    /\ lpc' = [lpc EXCEPT ![t] = "return"]
    /\ UNCHANGED <<counter, larg>>
    /\ UNCHANGED <<mintVars, progVars>>

\* unreachable!("box address should be unique") if insert returned false,
\* else Dropping { value, ptr } goes to the caller
LockReturn(t) ==
    /\ td.st # "aborted"
    /\ lpc[t] = "return"
    /\ IF larg[t].dup
       THEN /\ UNCHANGED handles
            /\ last' = Call("lock", larg[t].k, larg[t].a, "panic_unreachable", NoValue)
       ELSE /\ handles' = [handles EXCEPT ![larg[t].a] = Dropping(larg[t].value, larg[t].ptr)]
            /\ last' = Call("lock", larg[t].k, larg[t].a, "ok", NoValue)
    /\ lpc' = [lpc EXCEPT ![t] = "idle"]
    /\ larg' = [larg EXCEPT ![t] = NoArg]
    /\ UNCHANGED <<counter, keys, heap, owned, boxes, td, mutex>>
    /\ UNCHANGED mintVars

\* what a thread inside DroppingKey::lock does next (while the process lives: a
\* second panic in the drop of some key aborts it, threads and all)
LockStep(t) ==
    \/ MutexLock(t)
    \/ HashSetProbe(t)
    \/ HashSetWrite(t)
    \/ MutexGuardDrop(t)
    \/ LockReturn(t)

----------------------------------------------------------------------------
(* locked.rs: the accessors *)

Ref(d) == [variant |-> "Ref", data |-> d]
\* a slice of MaybeUninit<T>: the initialized elements and the slice's length
Buf(d, n) == [variant |-> "Buf", data |-> d, len |-> n]
Usize(n) == [variant |-> "usize", n |-> n]
Weak(a) == [variant |-> "Weak", ptr |-> a]

\* what an accessor did: its outcome, what it returned, and the storage cell after
Did(outcome, ret, cell) == [outcome |-> outcome, ret |-> ret, cell |-> cell]
Panicked(cell) == Did("panic_wrong_key", NoValue, cell)

IsBuffer(l) == l.variant \in {"Vec", "String", "CString"}
\* the LockedVec of a buffer variant
VecPart(l) == IF l.variant = "Vec" THEN l ELSE l.inner

\* LockedVec::len, LockedVec::capacity (LockedString forwards to them): no key
LockedVec_len(l) == l.len
LockedVec_capacity(l) == l.capacity

\* LockedMut::get, LockedBox::get, LockedRc::get, LockedArc::get
Scalar_get(l, key_id, cell) ==
    IF check_id(key_id, l.key_id) THEN Did("ok", Ref(cell.data), cell) ELSE Panicked(cell)

\* LockedMut::get_mut, LockedBox::get_mut: the caller writes w through the &mut T
Scalar_get_mut(l, key_id, cell, w) ==
    IF check_id(key_id, l.key_id)
    THEN Did("ok", Ref(w), [cell EXCEPT !.data = w])
    ELSE Panicked(cell)

\* LockedVec::get: slice::from_raw_parts(ptr, len)
LockedVec_get(l, key_id, cell) ==
    IF check_id(key_id, l.key_id)
    THEN Did("ok", Ref(SubSeq(cell.data, 1, l.len)), cell)
    ELSE Panicked(cell)

\* LockedVec::get_mut: slice::from_raw_parts_mut(ptr, len), written with w
LockedVec_get_mut(l, key_id, cell, w) ==
    IF check_id(key_id, l.key_id)
    THEN Did("ok", Ref(w), [cell EXCEPT !.data = w])
    ELSE Panicked(cell)

\* LockedVec::get_buf: slice::from_raw_parts(ptr.cast(), capacity)
LockedVec_get_buf(l, key_id, cell) ==
    IF check_id(key_id, l.key_id)
    THEN Did("ok", Buf(cell.data, l.capacity), cell)
    ELSE Panicked(cell)

\* LockedVec::get_buf_mut: slice::from_raw_parts_mut(ptr.cast(), capacity)
LockedVec_get_buf_mut(l, key_id, cell, w) ==
    IF check_id(key_id, l.key_id)
    THEN Did("ok", Buf(w, l.capacity), [cell EXCEPT !.data = w])
    ELSE Panicked(cell)

\* an Rc::get_mut that does not look at the counts
always_unique(cell) == TRUE
\* Rc::get_mut / Arc::get_mut give the &mut T only to the one owner: one strong
\* count and no weak handle
is_unique(cell) == cell.strong = 1 /\ cell.weak = 0

\* LockedRc::get_mut, LockedArc::get_mut: Some(&mut T), written with w, or None
Shared_get_mut(l, key_id, cell, w) ==
    IF ~check_id(key_id, l.key_id) THEN Panicked(cell)
    ELSE IF is_unique(cell) THEN Did("ok", Ref(w), [cell EXCEPT !.data = w])
    ELSE Did("none", NoValue, cell)

\* a clone that hands out a second handle without counting it
Shared_clone_uncounted(l, key_id, cell) ==
    IF check_id(key_id, l.key_id)
    THEN Did("ok", [variant |-> l.variant, ptr |-> l.ptr], cell)
    ELSE Panicked(cell)
\* LockedRc::clone, LockedArc::clone: increment_strong_count, then from_raw
Shared_clone(l, key_id, cell) ==
    IF check_id(key_id, l.key_id)
    THEN Did("ok", [variant |-> l.variant, ptr |-> l.ptr], [cell EXCEPT !.strong = @ + 1])
    ELSE Panicked(cell)

\* LockedRc::downgrade, LockedArc::downgrade
Shared_downgrade(l, key_id, cell) ==
    IF check_id(key_id, l.key_id)
    THEN Did("ok", Weak(l.ptr), [cell EXCEPT !.weak = @ + 1])
    ELSE Panicked(cell)

\* the writes a caller may make through a &mut to the n initialized elements;
\* a str stays as long as it was
Writes(n) == [1..n -> Elem]

\* an accessor is called with a key the caller holds and a locked value it holds
CanAccess(k, h) ==
    /\ Running
    /\ IsLive(keys[k])
    /\ IsHeld(handles[h])

Accessed(k, h, op, r) ==
    /\ heap' = [heap EXCEPT ![LPtr(Deref(handles[h]))] =
                   [r.cell EXCEPT
                      !.wrote = @ \/ r.cell.data # heap[LPtr(Deref(handles[h]))].data,
                      !.clones = IF op = "clone" /\ r.outcome = "ok" THEN @ + 1 ELSE @]]
    /\ last' = Call(op, k, h, r.outcome, r.ret)
    /\ UNCHANGED <<counter, keys, owned, handles, boxes, td>>
    /\ UNCHANGED <<mintVars, lockVars>>

\* len() and capacity() of LockedVec and LockedString
LenCapacity(h, op) ==
    /\ Running
    /\ IsHeld(handles[h])
    /\ Deref(handles[h]).variant \in {"Vec", "String"}
    /\ last' = Call(op, 0, h, "ok",
                    Usize(IF op = "len" THEN LockedVec_len(VecPart(Deref(handles[h])))
                          ELSE LockedVec_capacity(VecPart(Deref(handles[h])))))
    /\ UNCHANGED <<counter, keys, heap, owned, handles, boxes, td>>
    /\ UNCHANGED <<mintVars, lockVars>>

\* get(key) of every variant
Get(k, h) ==
    /\ CanAccess(k, h)
    /\ LET l == Deref(handles[h])
           cell == heap[LPtr(l)]
       IN  Accessed(k, h, "get",
                    IF IsBuffer(l) THEN LockedVec_get(VecPart(l), Key_id(keys[k]), cell)
                    ELSE Scalar_get(l, Key_id(keys[k]), cell))

\* get_mut(key) of every variant that has one, and what the caller writes
GetMut(k, h, w) ==
    /\ CanAccess(k, h)
    /\ LET l == Deref(handles[h])
           cell == heap[LPtr(l)]
       IN  /\ l.variant # "CString"
           /\ w \in Writes(Len(cell.data))
           /\ Accessed(k, h, "get_mut",
                       CASE l.variant \in {"Vec", "String"} ->
                              LockedVec_get_mut(VecPart(l), Key_id(keys[k]), cell, w)
                         [] l.variant \in {"Rc", "Arc"} ->
                              Shared_get_mut(l, Key_id(keys[k]), cell, w)
                         [] OTHER -> Scalar_get_mut(l, Key_id(keys[k]), cell, w))

\* get_buf(key) of LockedVec, get_bytes_buf(key) of LockedString
GetBuf(k, h) ==
    /\ CanAccess(k, h)
    /\ LET l == Deref(handles[h])
       IN  /\ l.variant \in {"Vec", "String"}
           /\ Accessed(k, h, "get_buf",
                       LockedVec_get_buf(VecPart(l), Key_id(keys[k]), heap[LPtr(l)]))

\* get_buf_mut(key) of LockedVec, get_bytes_buf_mut(key) of LockedString
GetBufMut(k, h, w) ==
    /\ CanAccess(k, h)
    /\ LET l == Deref(handles[h])
           cell == heap[LPtr(l)]
       IN  /\ l.variant \in {"Vec", "String"}
           /\ w \in Writes(Len(cell.data))
           /\ Accessed(k, h, "get_buf_mut",
                       LockedVec_get_buf_mut(VecPart(l), Key_id(keys[k]), cell, w))

\* clone(key) of LockedRc and LockedArc
Clone(k, h) ==
    /\ CanAccess(k, h)
    /\ LET l == Deref(handles[h])
       IN  /\ l.variant \in {"Rc", "Arc"}
           /\ heap[LPtr(l)].strong < MaxStrong
           /\ Accessed(k, h, "clone", Shared_clone(l, Key_id(keys[k]), heap[LPtr(l)]))

\* downgrade(key) of LockedRc and LockedArc
Downgrade(k, h) ==
    /\ CanAccess(k, h)
    /\ LET l == Deref(handles[h])
       IN  /\ l.variant \in {"Rc", "Arc"}
           /\ heap[LPtr(l)].weak < MaxWeak
           /\ Accessed(k, h, "downgrade",
                       Shared_downgrade(l, Key_id(keys[k]), heap[LPtr(l)]))

\* into_raw_parts and from_raw_parts, where locked.rs has them
LockedMut_into_raw_parts(l) == <<l.ptr, l.key_id>>
LockedMut_from_raw_parts(ptr, key_id) == [variant |-> "Mut", ptr |-> ptr, key_id |-> key_id]
LockedBox_into_raw_parts(l) == <<l.ptr, l.key_id>>
LockedBox_from_raw_parts(ptr, key_id) == [variant |-> "Box", ptr |-> ptr, key_id |-> key_id]
LockedVec_into_raw_parts(l) == <<l.ptr, l.len, l.capacity, l.key_id>>
LockedVec_from_raw_parts(ptr, len, capacity, key_id) ==
    [variant |-> "Vec", ptr |-> ptr, len |-> len, capacity |-> capacity, key_id |-> key_id]
LockedString_into_raw_parts(l) == LockedVec_into_raw_parts(l.inner)
LockedString_from_raw_parts(ptr, len, capacity, key_id) ==
    [variant |-> "String", inner |-> LockedVec_from_raw_parts(ptr, len, capacity, key_id)]
LockedCString_into_raw_parts(l) == LockedVec_into_raw_parts(l.inner)
LockedCString_from_raw_parts(ptr, len, capacity, key_id) ==
    [variant |-> "CString", inner |-> LockedVec_from_raw_parts(ptr, len, capacity, key_id)]

\* the caller takes the locked value in slot h apart with into_raw_parts and
\* builds it again with from_raw_parts of the same type. LockedRc and LockedArc
\* have neither function, and their fields are private: the call does not exist
RawParts(h) ==
    /\ Running
    /\ IsHeld(handles[h])
    /\ ~IsDropping(handles[h])
    /\ LET l == handles[h]
           p == CASE l.variant = "Mut" -> LockedMut_into_raw_parts(l)
                  [] l.variant = "Box" -> LockedBox_into_raw_parts(l)
                  [] l.variant = "Vec" -> LockedVec_into_raw_parts(l)
                  [] l.variant = "String" -> LockedString_into_raw_parts(l)
                  [] l.variant = "CString" -> LockedCString_into_raw_parts(l)
                  [] OTHER -> <<>>
       IN  IF l.variant \in {"Rc", "Arc"}
           THEN /\ UNCHANGED handles
                /\ last' = Call("raw_parts", 0, h, "no_such_function", NoValue)
           ELSE /\ handles' = [handles EXCEPT ![h] =
                      CASE l.variant = "Mut" -> LockedMut_from_raw_parts(p[1], p[2])
                        [] l.variant = "Box" -> LockedBox_from_raw_parts(p[1], p[2])
                        [] l.variant = "Vec" -> LockedVec_from_raw_parts(p[1], p[2], p[3], p[4])
                        [] l.variant = "String" ->
                             LockedString_from_raw_parts(p[1], p[2], p[3], p[4])
                        [] l.variant = "CString" ->
                             LockedCString_from_raw_parts(p[1], p[2], p[3], p[4])]
                /\ last' = Call("raw_parts", 0, h, "ok", NoValue)
    /\ UNCHANGED <<counter, keys, heap, owned, boxes, td>>
    /\ UNCHANGED <<mintVars, lockVars>>

----------------------------------------------------------------------------
(* The specifications *)

InitWith(addrs) ==
    /\ counter = 0
    /\ mpc = [t \in Threads |-> MintIdle]
    /\ mprev = [t \in Threads |-> 0]
    /\ mret = [t \in Threads |-> [outcome |-> "none", id |-> NoId]]
    /\ issued = [i \in 0..UsizeMax |-> 0]
    /\ keys = [k \in KeySlots |-> NoKey]
    /\ heap = [a \in addrs |-> FreeCell]
    /\ owned = [a \in addrs |-> NoValue]
    /\ handles = [a \in addrs |-> NoHandle]
    /\ boxes = [b \in BoxAddrs |-> FreeBox]
    /\ td = Idle
    /\ last = NoCall
    /\ lpc = [t \in Threads |-> "idle"]
    /\ larg = [t \in Threads |-> NoArg]
    /\ mutex = [k \in KeySlots |-> 0]

Init == InitWith(Addrs)

\* the calls of the keys: construction, lock, unlock
KeyCalls ==
    \/ \E k \in KeySlots : ForgettingKey_new(k)
    \/ \E k \in KeySlots : LocalDroppingKey_new(k)
    \/ \E k \in KeySlots : DroppingKey_new(k)
    \/ \E k \in KeySlots, a \in DOMAIN heap : ForgettingKeyLock(k, a)
    \/ \E k \in KeySlots, h \in DOMAIN handles : ForgettingKeyUnlock(k, h)
    \/ \E k \in KeySlots, a \in DOMAIN heap, b \in BoxAddrs : LocalDroppingKeyLock(k, a, b)
    \/ \E k \in KeySlots, h \in DOMAIN handles : LocalDroppingKeyUnlock(k, h)
    \/ \E k \in KeySlots, a \in DOMAIN heap, b \in BoxAddrs : DroppingKeyLock(k, a, b)
    \/ \E k \in KeySlots, h \in DOMAIN handles : DroppingKeyUnlock(k, h)

\* the keys going away
KeyDrops ==
    \/ \E k \in KeySlots : ForgettingKeyDrop(k)
    \/ \E k \in KeySlots : BookkeepingDrop(k)
    \/ \E b \in BoxAddrs, panics \in BOOLEAN : UnlockDropStep(b, panics)
    \/ UnlockDropAllEnd

\* lock, unlock and drop, and nothing else done with a locked value
NextLockUnlock ==
    \/ \E a \in DOMAIN heap : \E val \in PlainValues(a) : NewValue(a, val)
    \/ KeyCalls
    \/ KeyDrops

\* the registry model: the keys, and the caller's use of DerefMut
Next ==
    \/ NextLockUnlock
    \/ \E h1, h2 \in DOMAIN handles : DerefMutSwap(h1, h2)

\* the accessor model: values of every shape, and every accessor
NextAccess ==
    \/ \E a \in DOMAIN heap : \E val \in AllValues(a) : NewValue(a, val)
    \/ KeyCalls
    \/ \E h \in DOMAIN handles, op \in {"len", "capacity"} : LenCapacity(h, op)
    \/ \E k \in KeySlots, h \in DOMAIN handles : Get(k, h)
    \/ \E k \in KeySlots, h \in DOMAIN handles, w \in SeqsUpTo(MaxLen + 1) : GetMut(k, h, w)
    \/ \E k \in KeySlots, h \in DOMAIN handles : GetBuf(k, h)
    \/ \E k \in KeySlots, h \in DOMAIN handles, w \in SeqsUpTo(MaxLen + 1) : GetBufMut(k, h, w)
    \/ \E k \in KeySlots, h \in DOMAIN handles : Clone(k, h)
    \/ \E k \in KeySlots, h \in DOMAIN handles : Downgrade(k, h)
    \/ \E h \in DOMAIN handles : RawParts(h)

\* the accessor model with keys that go away
NextAccessDrop ==
    \/ NextAccess
    \/ KeyDrops

\* the minting model: threads calling KeyId::new
NextMint ==
    \/ \E t \in Threads : MintLoad(t)
    \/ \E t \in Threads : MintOverflow(t)
    \/ \E t \in Threads : MintCasOk(t)
    \/ \E t \in Threads : MintCasFail(t)

\* the concurrent model: threads share DroppingKeys and call lock on them; the
\* owner of a key drops it when no call is in flight
NextConc ==
    \/ \E a \in DOMAIN heap : \E val \in ConcValues(a) : NewValue(a, val)
    \/ \E k \in KeySlots : DroppingKey_new(k)
    \/ \E t \in Threads, k \in KeySlots, a \in DOMAIN heap, b \in BoxAddrs : LockEnter(t, k, a, b)
    \/ \E t \in Threads : MutexLock(t)
    \/ \E t \in Threads : HashSetProbe(t)
    \/ \E t \in Threads : HashSetWrite(t)
    \/ \E t \in Threads : MutexGuardDrop(t)
    \/ \E t \in Threads : LockReturn(t)
    \/ \E k \in KeySlots : BookkeepingDrop(k)
    \/ \E b \in BoxAddrs, panics \in BOOLEAN : UnlockDropStep(b, panics)
    \/ UnlockDropAllEnd

Spec == Init /\ [][Next]_vars
SpecLockUnlock == Init /\ [][NextLockUnlock]_vars
SpecAccess == InitWith(1..MaxAccessValues) /\ [][NextAccess]_vars
SpecAccessDrop == InitWith(1..MaxAccessValues) /\ [][NextAccessDrop]_vars
SpecMint == Init /\ [][NextMint]_vars
SpecConc == Init /\ [][NextConc]_vars
\* the scheduler lets every thread that can take a step take one, and a thread
\* for which the mutex is free again and again gets it in the end
SpecConcFair ==
    /\ SpecConc
    /\ \A t \in Threads : WF_vars(LockStep(t))
    /\ \A t \in Threads : SF_vars(MutexLock(t))

----------------------------------------------------------------------------
(* The claims about KeyId::new (SpecMint) *)

Ids == 0..UsizeMax

\* C5: whatever threads have minted, concurrently or not, the identities returned
\* are pairwise distinct: no identity has been returned twice, the identities
\* returned so far are exactly those below the counter (it started at zero, and
\* each mint returned its previous value and raised it by one), and two threads
\* never hold the same identity as their latest result
C5_MintsDistinct ==
    /\ \A i \in Ids : issued[i] <= 1
    /\ \A i \in Ids : issued[i] = 1 <=> i < counter
    /\ \A t \in Threads : mret[t].outcome = "ok" => issued[mret[t].id] = 1
    /\ \A t1, t2 \in Threads :
         (t1 # t2 /\ mret[t1].outcome = "ok" /\ mret[t2].outcome = "ok")
            => mret[t1].id # mret[t2].id

\* two threads have minted, and one of them is inside fetch_update again with a
\* value the other has since replaced: its compare-exchange has to fail
C5_Witness ==
    /\ mret[1].outcome = "ok"
    /\ mret[2].outcome = "ok"
    /\ mret[2].id < mret[1].id
    /\ mpc[2] = MintLoaded
    /\ mprev[2] < counter

\* C6: the counter never goes down (it does not wrap); once it holds usize::MAX no
\* step changes it or issues an identity, and a mint that ends there ends in
\* the panic
C6_NoWrapAtMax ==
    [][/\ counter' >= counter
       /\ counter = UsizeMax =>
            /\ counter' = counter
            /\ issued' = issued
            /\ \A t \in Threads :
                 (mpc[t] = MintLoaded /\ mpc'[t] = MintIdle) => mret'[t].outcome = "panic"]_vars

\* the counter is exhausted and a mint has failed, with every identity below
\* usize::MAX issued once
C6_Witness ==
    /\ counter = UsizeMax
    /\ \E t \in Threads : mret[t].outcome = "panic"
    /\ \A i \in Ids : i < UsizeMax => issued[i] = 1

----------------------------------------------------------------------------
(* The claims about the bookkeeping keys (Spec, SpecLockUnlock) *)

\* the bookkeeping keys whose drop has ended with the given outcome
Dropped(k, outcome) ==
    /\ keys[k].kind = "dropped"
    /\ keys[k].was \in BookkeepingKinds
    /\ keys[k].outcome = outcome

\* the values last locked under the identity id
LockedWith(id) == {a \in DOMAIN heap : heap[a].lock_id = id}

\* the values in locked form under the identity id: locked with it, and not
\* back with the caller
LockedUnder(id) == {a \in LockedWith(id) : owned[a] = NoValue}

\* how many times the pass has released the storage a
Releases(rel, a) == Cardinality({i \in DOMAIN rel : rel[i] = a})

\* C1: when the drop of a bookkeeping key on which no unlock call was made
\* returns, it has released every value that was locked under the key exactly
\* once and nothing else, whatever the order the registry was drained in
C1_DropReleasesEachOnce ==
    [][(td.st = "running" /\ td'.st = "idle" /\ td.panics = 0 /\ ~keys[td.key].unlocked)
         => \A a \in DOMAIN heap :
               /\ Releases(td.rel, a) =
                     IF a \in LockedWith(Key_id(keys[td.key])) THEN 1 ELSE 0
               /\ a \in LockedWith(Key_id(keys[td.key])) => heap[a].released = 1]_vars

\* a bookkeeping key has been dropped with two values locked under it and no
\* unlock call made on it, and both values have been released once
C1_Witness ==
    \E k \in KeySlots :
        /\ Dropped(k, "ok")
        /\ Cardinality(LockedWith(keys[k].id)) = 2
        /\ ~keys[k].unlocked
        /\ \A a \in LockedWith(keys[k].id) : heap[a].released = 1

\* C2: by lock and unlock calls alone, the registry of a bookkeeping key (one that
\* is not being dropped) holds exactly one record, in an allocated cell and
\* tagged with the key's identity, for each value locked under the key and
\* not unlocked since, and no other record
C2_RegistryIffLocked ==
    \A k \in KeySlots :
        (IsBookkeeping(keys[k]) /\ ~(td.st # "idle" /\ td.key = k)) =>
            LET reg == keys[k].droppers
                id == Key_id(keys[k])
            IN  /\ \A b \in reg :
                     /\ boxes[b].st = "alloc"
                     /\ key_id_of(boxes[b].value) = id
                /\ {LPtr(boxes[b].value) : b \in reg} = LockedUnder(id)
                /\ Cardinality(reg) = Cardinality(LockedUnder(id))

\* a bookkeeping key with one value locked and registered, and another that it
\* locked and then unlocked
C2_Witness ==
    \E k \in KeySlots :
        /\ IsBookkeeping(keys[k])
        /\ Cardinality(keys[k].droppers) = 1
        /\ \E a \in LockedWith(Key_id(keys[k])) : heap[a].reverted /\ owned[a] # NoValue

\* C3: the drop of a bookkeeping key releases only values in locked form: no step
\* of it releases a value that an unlock call has handed back to the caller
C3_DropSkipsUnlocked ==
    [][td.st = "running" =>
         \A a \in DOMAIN heap :
            heap'[a].released > heap[a].released => owned[a] = NoValue]_vars

\* C7: a drop of a bookkeeping key in which one finalizer panicked has still gone
\* through every record: the process is aborted only by a second panic, the
\* records left after the first panic are still allocated, and when the panic
\* leaves the drop (of a key on which no unlock call was made) the pass has
\* released every value locked under the key exactly once, the one whose
\* finalizer panicked included, and nothing else
C7_PanicAfterFullPass ==
    /\ [](td.st = "aborted" => td.panics >= 2)
    /\ []((td.st = "running" /\ td.panics = 1) =>
            \A b \in td.droppers : boxes[b].st = "alloc")
    /\ [][(td.st = "running" /\ td'.st = "idle" /\ td.panics = 1 /\ ~keys[td.key].unlocked)
           => /\ keys'[td.key].outcome = "panic_drop"
              /\ \A a \in DOMAIN heap :
                    Releases(td.rel, a) =
                       IF a \in LockedWith(Key_id(keys[td.key])) THEN 1 ELSE 0]_vars

\* the drop of a key with two values ended in the panic of one finalizer, and both
\* values have been released once
C7_Witness ==
    \E k \in KeySlots :
        /\ Dropped(k, "panic_drop")
        /\ Cardinality(LockedWith(keys[k].id)) = 2
        /\ ~keys[k].unlocked
        /\ \A a \in LockedWith(keys[k].id) : heap[a].released = 1

----------------------------------------------------------------------------
(* The claims about the locked variants and their accessors (SpecAccess) *)

\* the calls that take a key and a locked value
KeyedOps == {"get", "get_mut", "get_buf", "get_buf_mut", "clone", "downgrade", "unlock"}

\* the call of this step is made with the key in slot k on the locked value in h
Calls(ops) ==
    /\ last'.op \in ops
    /\ last'.key \in KeySlots
    /\ IsLive(keys[last'.key])
    /\ IsHeld(handles[last'.h])

\* C4: a call of an accessor (get, get_mut, get_buf, get_buf_mut, clone, downgrade)
\* or of unlock with a key whose identity differs from the one stored in the
\* locked value panics, returns nothing, and leaves the storage (data, owner
\* counts), the registries and the caller's values as they were; the locked
\* value is unchanged (an accessor) or gone with the call it was moved into (unlock)
C4_WrongKeyNoAccess ==
    [][(Calls(KeyedOps) /\
          Key_id(keys[last'.key]) # key_id_of(Deref(handles[last'.h])))
         => /\ last'.outcome = "panic_wrong_key"
            /\ last'.ret = NoValue
            /\ heap' = heap
            /\ owned' = owned
            /\ keys' = keys
            /\ boxes' = boxes
            /\ handles' = IF last'.op = "unlock"
                          THEN [handles EXCEPT ![last'.h] = NoHandle]
                          ELSE handles]_vars

\* get_mut on a shared handle locked under another key has panicked, and the
\* locked value is still with the caller
C4_Witness ==
    /\ last.op = "get_mut"
    /\ last.outcome = "panic_wrong_key"
    /\ IsHeld(handles[last.h])
    /\ Deref(handles[last.h]).variant = "Arc"
    /\ Key_id(keys[last.key]) # key_id_of(Deref(handles[last.h]))

\* C8: an unlock that returns, with a key of any of the three types and a locked
\* value of any variant, returns the unlocked value that was locked, to the
\* caller, and the content is the content it had when locked unless a
\* caller's write through an accessor has changed it
C8_RoundTrip ==
    (last.op = "unlock" /\ last.outcome = "ok") =>
        LET a == UPtr(last.ret)
        IN  /\ last.ret = heap[a].orig
            /\ owned[a] = last.ret
            /\ heap[a].st = "live"
            /\ ~heap[a].wrote => heap[a].data = heap[a].orig_data

\* a buffer with spare capacity has been locked under a thread-safe bookkeeping
\* key and unlocked with that key, its content not written in between
C8_Witness ==
    /\ last.op = "unlock"
    /\ last.outcome = "ok"
    /\ keys[last.key].kind = "DroppingKey"
    /\ last.ret.variant = "Vec"
    /\ last.ret.cap > last.ret.len
    /\ last.ret.len > 0
    /\ ~heap[UPtr(last.ret)].wrote

\* length and capacity of an unlocked buffer
Shape(u) ==
    CASE u.variant = "Vec" -> <<u.len, u.cap>>
      [] u.variant = "String" -> <<u.vec.len, u.vec.cap>>
      [] u.variant = "CString" -> <<u.inner.len, u.inner.len>>

\* C9: a locked buffer, string or C string holds the length and the capacity its
\* unlocked value had when locked, in every state until unlock; len() and
\* capacity() report them; and unlock returns a value of that length and capacity
C9_ShapePreserved ==
    /\ \A h \in DOMAIN handles :
         (IsHeld(handles[h]) /\ IsBuffer(Deref(handles[h]))) =>
            LET l == VecPart(Deref(handles[h]))
            IN  /\ <<LockedVec_len(l), LockedVec_capacity(l)>> = Shape(heap[l.ptr].orig)
                /\ (last.op = "len" /\ last.h = h) => last.ret = Usize(Shape(heap[l.ptr].orig)[1])
                /\ (last.op = "capacity" /\ last.h = h) =>
                      last.ret = Usize(Shape(heap[l.ptr].orig)[2])
    /\ (last.op = "unlock" /\ last.outcome = "ok" /\ IsBuffer(last.ret)) =>
          Shape(last.ret) = Shape(heap[UPtr(last.ret)].orig)

\* capacity() is called on a locked string with spare capacity whose content a
\* caller has overwritten through the full-buffer accessor
C9_Witness ==
    /\ last.op = "capacity"
    /\ IsHeld(handles[last.h])
    /\ Deref(handles[last.h]).variant = "String"
    /\ heap[LPtr(Deref(handles[last.h]))].wrote
    /\ last.ret.n > LockedVec_len(VecPart(Deref(handles[last.h])))

\* C10: get_mut with the matching key on a LockedRc or LockedArc returns the
\* reference or None, never panics; it returns the reference only when the
\* strong count is one; and with more than one owner it returns None and
\* leaves the counts and the value as they were
C10_GetMutSoleOwner ==
    [][(Calls({"get_mut"}) /\
          Deref(handles[last'.h]).variant \in {"Rc", "Arc"} /\
          Key_id(keys[last'.key]) = key_id_of(Deref(handles[last'.h])))
         => LET a == LPtr(Deref(handles[last'.h]))
            IN  /\ last'.outcome \in {"ok", "none"}
                /\ last'.outcome = "ok" => heap[a].strong = 1
                /\ heap[a].strong > 1 =>
                      /\ last'.outcome = "none"
                      /\ last'.ret = NoValue
                      /\ heap' = heap
                /\ heap'[a].strong = heap[a].strong
                /\ heap'[a].weak = heap[a].weak]_vars

\* get_mut with the matching key on a LockedRc with two owners has returned None
C10_Witness ==
    /\ last.op = "get_mut"
    /\ last.outcome = "none"
    /\ IsHeld(handles[last.h])
    /\ Deref(handles[last.h]).variant = "Rc"
    /\ heap[LPtr(Deref(handles[last.h]))].strong = 2
    /\ heap[LPtr(Deref(handles[last.h]))].weak = 0

\* C11: a clone call with the matching key on a LockedRc or LockedArc returns an
\* Rc or Arc to the same value, raises its strong count by exactly one, and
\* leaves the content, the weak count and the caller's locked value as they
\* were; so a value locked with strong count c has, while it is locked,
\* strong count c + k after k clone calls have returned
C11_CloneCountsOne ==
    /\ [][(Calls({"clone"}) /\
             Key_id(keys[last'.key]) = key_id_of(Deref(handles[last'.h])))
            => LET l == Deref(handles[last'.h])
                   a == LPtr(l)
               IN  /\ last'.outcome = "ok"
                   /\ last'.ret = [variant |-> l.variant, ptr |-> a]
                   /\ heap'[a].strong = heap[a].strong + 1
                   /\ heap'[a].weak = heap[a].weak
                   /\ heap'[a].data = heap[a].data
                   /\ heap'[a].st = heap[a].st
                   /\ handles' = handles
                   /\ owned' = owned]_vars
    /\ [](\A h \in DOMAIN handles :
            (IsHeld(handles[h]) /\ Deref(handles[h]).variant \in {"Rc", "Arc"}) =>
               LET c == heap[LPtr(Deref(handles[h]))]
               IN  c.strong = c.orig_strong + c.clones)

\* an Arc locked with one owner has been cloned twice with its key, and clone
\* has just returned: three owners
C11_Witness ==
    /\ last.op = "clone"
    /\ last.outcome = "ok"
    /\ IsHeld(handles[last.h])
    /\ Deref(handles[last.h]).variant = "Arc"
    /\ heap[LPtr(Deref(handles[last.h]))].orig_strong = 1
    /\ heap[LPtr(Deref(handles[last.h]))].clones = 2
    /\ heap[LPtr(Deref(handles[last.h]))].strong = 3

----------------------------------------------------------------------------
(* More claims about the keys (Spec, SpecLockUnlock) *)

\* the identities of the minimal keys, living or gone
ForgettingIds ==
    {Key_id(keys[k]) : k \in {j \in KeySlots : keys[j].kind = "ForgettingKey"}}
       \cup {keys[k].id : k \in {j \in KeySlots :
                                   keys[j].kind = "dropped" /\ keys[j].was = "ForgettingKey"}}

\* C12: the end of a ForgettingKey releases nothing and changes no storage, and
\* a value locked under a ForgettingKey and not unlocked since is never
\* released, before or after the key has gone: its storage stays live
C12_ForgettingKeyLeaks ==
    /\ [][\A k \in KeySlots :
            (keys[k].kind = "ForgettingKey" /\ keys'[k].kind = "dropped") =>
                /\ heap' = heap
                /\ owned' = owned
                /\ boxes' = boxes]_vars
    /\ [](\A a \in DOMAIN heap :
            (heap[a].lock_id \in ForgettingIds /\ owned[a] = NoValue) =>
                /\ heap[a].released = 0
                /\ heap[a].st = "live")

\* a ForgettingKey has gone while a Box locked under it was outstanding, and the
\* caller no longer holds the locked value either: the Box is leaked
C12_Witness ==
    \E k \in KeySlots, a \in DOMAIN heap :
        /\ keys[k].kind = "dropped"
        /\ keys[k].was = "ForgettingKey"
        /\ heap[a].lock_id = keys[k].id
        /\ heap[a].orig.variant = "Box"
        /\ owned[a] = NoValue
        /\ handles[a] = NoHandle
        /\ heap[a].st = "live"

----------------------------------------------------------------------------
(* The claims about DroppingKey::lock called by several threads (SpecConc) *)

\* no thread is inside a lock call
AllReturned == \A t \in Threads : lpc[t] = "idle"

\* the records of the registry of key slot k, as the values they hold
Registered(k) == {LPtr(boxes[b].value) : b \in keys[k].droppers}

\* C13: threads calling lock on a shared DroppingKey change its registry only
\* while holding its mutex, inside their insert; a call that has completed has
\* returned a handle, never found a duplicate; and when all calls have completed
\* the registry holds exactly one record for each of them: as many records as
\* values locked under the key, each value in one allocated record, named by
\* the handle the call returned. The drop of the key that follows releases
\* every one of those values exactly once, and nothing else
C13_ConcurrentInsertsKept ==
    /\ [][\A k \in KeySlots :
            (keys[k].kind = "DroppingKey" /\ keys'[k].kind = "DroppingKey"
             /\ keys'[k].droppers # keys[k].droppers /\ td'.st = "idle")
            => /\ mutex[k] \in Threads
               /\ lpc[mutex[k]] = "write" /\ lpc'[mutex[k]] = "unlock"
               /\ larg[mutex[k]].k = k
               /\ keys'[k].droppers = keys[k].droppers \cup {larg[mutex[k]].ptr}]_vars
    /\ [](last.op = "lock" => last.outcome = "ok")
    /\ [](\A k \in KeySlots :
            (keys[k].kind = "DroppingKey" /\ AllReturned /\ td.st = "idle")
            => /\ Cardinality(keys[k].droppers) = Cardinality(LockedWith(Key_id(keys[k])))
               /\ Registered(k) = LockedWith(Key_id(keys[k]))
               /\ \A b \in keys[k].droppers : boxes[b].st = "alloc"
               /\ \A a \in LockedWith(Key_id(keys[k])) :
                     /\ IsHeld(handles[a]) /\ IsDropping(handles[a])
                     /\ handles[a].ptr \in keys[k].droppers
                     /\ boxes[handles[a].ptr].value = Deref(handles[a])
                     /\ LPtr(Deref(handles[a])) = a)
    /\ [][(td.st = "running" /\ td'.st = "idle" /\ td.panics = 0)
            => \A a \in DOMAIN heap :
                  /\ Releases(td.rel, a) =
                        IF a \in LockedWith(Key_id(keys[td.key])) THEN 1 ELSE 0
                  /\ a \in LockedWith(Key_id(keys[td.key])) => heap[a].released = 1]_vars

\* two threads are inside lock on the same key at the same time, one waited for
\* the mutex while the other held it, and both inserts are in the registry
C13_Witness ==
    \E k \in KeySlots, t, u \in Threads :
        /\ t # u
        /\ keys[k].kind = "DroppingKey"
        /\ larg[t].k = k /\ larg[u].k = k
        /\ lpc[t] = "return" /\ lpc[u] = "unlock"
        /\ mutex[k] = u
        /\ keys[k].droppers = {larg[t].ptr, larg[u].ptr}
        /\ Cardinality(keys[k].droppers) = 2

----------------------------------------------------------------------------
(* More claims about the registry (SpecLockUnlock) *)

\* C14: whatever lock, unlock and drop calls are made, no call ends in either
\* unreachable!: every record of a live key's registry is an allocated Box, and
\* Box::new never returns an allocated address, so the insert of lock finds no
\* equal record; the registries of two keys share no record; and every handle a
\* caller holds that passes the identity check of a live bookkeeping key has
\* its ptr in that key's registry, so the remove of unlock finds it
C14_NoRegistryViolation ==
    /\ last.outcome # "panic_unreachable"
    /\ \A k \in KeySlots : IsBookkeeping(keys[k]) =>
          /\ \A b \in keys[k].droppers : boxes[b].st = "alloc"
          /\ \A j \in KeySlots : (j # k /\ IsBookkeeping(keys[j])) =>
                keys[j].droppers \cap keys[k].droppers = {}
          /\ td.st = "idle" =>
                \A h \in DOMAIN handles :
                   (IsHeld(handles[h]) /\ IsDropping(handles[h])
                    /\ key_id_of(Deref(handles[h])) = Key_id(keys[k]))
                   => handles[h].ptr \in keys[k].droppers

\* an unlock on a bookkeeping key has found and removed its record (the Box of
\* the record stays allocated), and a later lock on the key has inserted a new
\* record, at another address
C14_Witness ==
    \E k \in KeySlots, b, c \in BoxAddrs :
        /\ IsBookkeeping(keys[k])
        /\ keys[k].unlocked
        /\ last.op = "lock" /\ last.key = k /\ last.outcome = "ok"
        /\ keys[k].droppers = {b}
        /\ c # b /\ boxes[c].st = "alloc"
        /\ \A j \in KeySlots : IsBookkeeping(keys[j]) => c \notin keys[j].droppers

\* C15: unlock on a bookkeeping key with a handle that another key produced
\* panics on the identity check of the inner key, before the registry is looked
\* at: the registries of all keys, the records, the storage and the caller's
\* values are as before, and only the handle, moved into the call, is gone. The
\* value stays registered with the key that locked it, and when that key is
\* dropped (no finalizer panicking) the pass releases the value, once
C15_WrongKeyUnlockKeepsRecord ==
    /\ [][(Calls({"unlock"}) /\ IsBookkeeping(keys[last'.key])
           /\ Key_id(keys[last'.key]) # key_id_of(Deref(handles[last'.h])))
          => /\ last'.outcome = "panic_wrong_key"
             /\ keys' = keys
             /\ boxes' = boxes
             /\ heap' = heap
             /\ owned' = owned
             /\ handles' = [handles EXCEPT ![last'.h] = NoHandle]]_vars
    /\ [](\A k \in KeySlots : (IsBookkeeping(keys[k]) /\ td.st = "idle") =>
            \A a \in LockedUnder(Key_id(keys[k])) :
               handles[a] = NoHandle => a \in Registered(k))
    /\ [][(td.st = "running" /\ td'.st = "idle" /\ td.panics = 0)
          => \A a \in LockedUnder(Key_id(keys[td.key])) :
                handles[a] = NoHandle =>
                   /\ Releases(td.rel, a) = 1
                   /\ heap[a].released = 1]_vars

\* a handle of one bookkeeping key was given to unlock of another, which
\* panicked; the key that locked the value has since been dropped and has
\* released the value, once
C15_Witness ==
    \E k, j \in KeySlots, a \in DOMAIN heap :
        /\ k # j
        /\ Dropped(k, "ok")
        /\ keys[j].kind \in BookkeepingKinds \cup {"dropped"}
        /\ heap[a].lock_id = keys[k].id
        /\ ~heap[a].reverted
        /\ owned[a] = NoValue
        /\ handles[a] = NoHandle
        /\ heap[a].released = 1
        /\ heap[a].st = "freed"

----------------------------------------------------------------------------
(* More claims about identities and accessors (SpecAccess) *)

\* C16: the identity of a key never changes while the key lives, and no two
\* living keys have the same one; a bookkeeping key reports the identity of its
\* inner ForgettingKey; every locked value, held by the caller or kept in a
\* registry record, carries the identity of the key that locked its storage,
\* as it was at the lock; and a call of an accessor or of
\* unlock with that key never panics on the identity check
C16_IdentityStable ==
    /\ [][\A k \in KeySlots : (IsLive(keys[k]) /\ IsLive(keys'[k]))
                                 => Key_id(keys'[k]) = Key_id(keys[k])]_vars
    /\ [](\A k, j \in KeySlots : (IsLive(keys[k]) /\ IsLive(keys[j]) /\ k # j)
                                    => Key_id(keys[k]) # Key_id(keys[j]))
    /\ [](\A k \in KeySlots : IsBookkeeping(keys[k])
                                 => Key_id(keys[k]) = Key_id(keys[k].inner))
    /\ [](\A h \in DOMAIN handles : IsHeld(handles[h]) =>
             key_id_of(Deref(handles[h])) = heap[LPtr(Deref(handles[h]))].lock_id)
    /\ [](\A k \in KeySlots : IsBookkeeping(keys[k]) =>
             \A b \in keys[k].droppers :
                /\ key_id_of(boxes[b].value) = heap[LPtr(boxes[b].value)].lock_id
                /\ key_id_of(boxes[b].value) = Key_id(keys[k]))
    /\ [][(Calls(KeyedOps) /\
             heap[LPtr(Deref(handles[last'.h]))].lock_id = Key_id(keys[last'.key]))
          => last'.outcome # "panic_wrong_key"]_vars

\* the second key made has locked a Box, locked and unlocked since by other
\* calls, and a get_mut with that key has passed the identity check
C16_Witness ==
    /\ last.op = "get_mut" /\ last.outcome = "ok"
    /\ last.key \in KeySlots
    /\ IsBookkeeping(keys[last.key])
    /\ Key_id(keys[last.key]) = 1
    /\ keys[last.key].unlocked
    /\ IsHeld(handles[last.h])
    /\ Deref(handles[last.h]).variant = "Box"
    /\ key_id_of(Deref(handles[last.h])) = 1

\* C17: whatever locked value the caller holds, of any of the seven variants,
\* into_raw_parts followed by from_raw_parts can be called on it and gives
\* back a locked value with the same identity, storage, length and capacity
\* (so every later call with any key behaves as it would have on the original)
C17_RawPartsOnEveryVariant ==
    [][last'.op = "raw_parts" =>
         /\ last'.outcome = "ok"
         /\ handles' = handles
         /\ heap' = heap]_vars

----------------------------------------------------------------------------
(* The claim about the Mutex of DroppingKey (SpecConcFair) *)

\* C18: the Mutex of a DroppingKey is held only by a thread that is inside the
\* insert of a lock call on that key; a thread that is about to return from
\* lock, or to panic in it, holds no mutex; the mutex is only ever taken when
\* free, so no thread takes it twice; and under a fair scheduler every lock
\* call that was started completes, in a process that is not aborted meanwhile
\* (by a second panic in the drop of another key)
C18_MutexOnlyAroundInsert ==
    /\ [](\A k \in KeySlots : mutex[k] # 0 =>
             /\ lpc[mutex[k]] \in {"probe", "write", "unlock"}
             /\ larg[mutex[k]].k = k)
    /\ [](\A t \in Threads : lpc[t] \in {"idle", "lock", "return"} =>
             \A k \in KeySlots : mutex[k] # t)
    /\ [][\A k \in KeySlots : (mutex'[k] # mutex[k] /\ mutex'[k] # 0) => mutex[k] = 0]_vars
    /\ \A t \in Threads : (lpc[t] # "idle") ~> (lpc[t] = "idle" \/ td.st = "aborted")

\* one thread is inside the insert holding the mutex while the other waits for it
C18_Witness ==
    \E k \in KeySlots, t, u \in Threads :
        /\ t # u
        /\ mutex[k] = t
        /\ lpc[t] = "write"
        /\ lpc[u] = "lock"
        /\ larg[u].k = k

----------------------------------------------------------------------------
(* The claim about Dropping handles and DerefMut (Spec) *)

\* C19: in every state, also after the caller has exchanged the inner locked
\* values of two handles through DerefMut, the record that a handle's ptr names
\* in the registry of its key holds the very locked value the handle holds;
\* and so the drop of a key releases what is still locked under it, once each,
\* and nothing that an unlock has given back to the caller
C19_HandleAliasesRecord ==
    /\ [](\A k \in KeySlots, h \in DOMAIN handles :
            (IsBookkeeping(keys[k]) /\ IsHeld(handles[h]) /\ IsDropping(handles[h])
             /\ key_id_of(Deref(handles[h])) = Key_id(keys[k])
             /\ handles[h].ptr \in keys[k].droppers)
            => boxes[handles[h].ptr].value = Deref(handles[h]))
    /\ [][(td.st = "running" /\ td'.st = "idle" /\ td.panics = 0)
          => \A a \in DOMAIN heap :
                /\ (a \in LockedUnder(Key_id(keys[td.key])) /\ IsHeld(handles[a]))
                      => Releases(td.rel, a) = 1
                /\ owned[a] # NoValue => Releases(td.rel, a) = 0]_vars

----------------------------------------------------------------------------
(* The claim about handles that outlive their key (SpecAccessDrop) *)

\* the caller holds in slot h a handle made by a bookkeeping key that is gone
Stale(h) ==
    /\ IsHeld(handles[h])
    /\ \E k \in KeySlots :
          /\ keys[k].kind = "dropped"
          /\ keys[k].was \in BookkeepingKinds
          /\ keys[k].id = key_id_of(Deref(handles[h]))

\* C20: once a bookkeeping key has been dropped, no key that lives has the
\* identity stored in a handle the caller still holds from it, and every call
\* of a keyed accessor or of unlock on such a handle panics on the identity
\* check: it returns nothing and leaves the storage, released or not, the
\* registries and the caller's values as they were
C20_StaleHandleNeverPasses ==
    /\ [](\A h \in DOMAIN handles : Stale(h) =>
             \A j \in KeySlots : IsLive(keys[j]) =>
                Key_id(keys[j]) # key_id_of(Deref(handles[h])))
    /\ [][(Calls(KeyedOps) /\ Stale(last'.h))
          => /\ last'.outcome = "panic_wrong_key"
             /\ last'.ret = NoValue
             /\ heap' = heap
             /\ owned' = owned
             /\ boxes' = boxes
             /\ keys' = keys]_vars

\* a bookkeeping key was dropped and released the Box locked under it; the
\* caller then called get on the handle it still holds, with a key made later
\* than the dropped one, and the call panicked
C20_Witness ==
    \E k \in KeySlots :
        /\ Dropped(k, "ok")
        /\ last.op = "get" /\ last.outcome = "panic_wrong_key"
        /\ last.key \in KeySlots /\ last.key > k
        /\ IsLive(keys[last.key])
        /\ Stale(last.h)
        /\ heap[LPtr(Deref(handles[last.h]))].st = "freed"
        /\ heap[LPtr(Deref(handles[last.h]))].released = 1

----------------------------------------------------------------------------
(* The claim about the heap cells of the records (SpecLockUnlock) *)

\* C21: when a bookkeeping key has been dropped, no heap cell that a lock on
\* it allocated for a record is still allocated: the cell of a record the drop
\* ran was freed by the drop, and the cell of a record that an unlock removed
\* from the registry was freed at that unlock
C21_RecordCellsFreed ==
    \A k \in KeySlots :
        (keys[k].kind = "dropped" /\ keys[k].was \in BookkeepingKinds) =>
            \A b \in BoxAddrs :
                boxes[b].st = "alloc" => key_id_of(boxes[b].value) # keys[k].id

----------------------------------------------------------------------------
(* The claim about shared handles under a bookkeeping key (SpecAccessDrop) *)

\* C22: a lock of an Rc or Arc under a bookkeeping key leaves its strong count
\* as it was (the raw_clone kept in the record is no owner); the step of the
\* key's drop that runs its record lowers the strong count by exactly one,
\* leaves the content alone, and frees the value exactly when that was the
\* last owner; so once the key is dropped, a shared value that was locked with
\* c owners and cloned k times with the key has c + k - 1 owners (k, when the
\* locked handle was the only owner), and is freed exactly when that is zero
C22_RecordIsNoOwner ==
    /\ [][(last'.op = "lock" /\ last'.outcome = "ok" /\ last'.key \in KeySlots
           /\ IsBookkeeping(keys[last'.key])
           /\ owned[last'.h].variant \in {"Rc", "Arc"})
          => /\ heap'[last'.h].strong = heap[last'.h].strong
             /\ heap'[last'.h].st = "live"
             /\ IsDropping(handles'[last'.h])]_vars
    /\ [][(td.st = "running" /\ Len(td'.rel) = Len(td.rel) + 1)
          => LET a == td'.rel[Len(td'.rel)]
             IN  heap[a].orig.variant \in {"Rc", "Arc"} =>
                    /\ heap'[a].strong = heap[a].strong - 1
                    /\ heap'[a].data = heap[a].data
                    /\ heap'[a].weak = heap[a].weak
                    /\ (heap'[a].st = "freed") <=> (heap[a].strong = 1)]_vars
    /\ [](\A k \in KeySlots : (keys[k].kind = "dropped" /\ keys[k].was \in BookkeepingKinds) =>
            \A a \in LockedUnder(keys[k].id) :
               heap[a].orig.variant \in {"Rc", "Arc"} =>
                  /\ heap[a].strong = heap[a].orig_strong + heap[a].clones - 1
                  /\ heap[a].released = 1
                  /\ (heap[a].st = "freed") <=> (heap[a].strong = 0)
                  /\ (heap[a].st = "live") <=> (heap[a].strong > 0))

\* an Rc with one owner was locked under a bookkeeping key and cloned twice
\* with it, and the key has been dropped: the value lives on with two owners
C22_Witness ==
    \E k \in KeySlots, a \in DOMAIN heap :
        /\ Dropped(k, "ok")
        /\ a \in LockedUnder(keys[k].id)
        /\ heap[a].orig.variant = "Rc"
        /\ heap[a].orig_strong = 1
        /\ heap[a].clones = 2
        /\ heap[a].strong = 2
        /\ heap[a].st = "live"
        /\ heap[a].released = 1

====
